---- MODULE Spec2Model ----
(***************************************************************************)
(* criaterm: the character grid (CharGrid), the formatted strings written  *)
(* into it (cstr, AnsiStr, Style) and the width classifier (wcwidth).      *)
(* Characters are code points; a Python str is a sequence of code points.  *)
(***************************************************************************)
EXTENDS Integers, Sequences, FiniteSets, TLC

\* ---------------------------------------------------------------- bounds
\* largest row index of a write
MaxLin == 1
\* largest value of col + len(s) of a write
MaxCol == 3
\* number of calls made on a grid
MaxCalls == 2

\* ------------------------------------------------------- Python helpers
\* Python's None
None == [none |-> TRUE]

\* a Python str used as the content of a write
PyStr(v) == [str |-> v]

IsStr(s) == "str" \in DOMAIN s
IsAnsiStr(s) == "data" \in DOMAIN s
IsCstr(s) == "style" \in DOMAIN s

Last(q) == q[Len(q)]
Front(q) == SubSeq(q, 1, Len(q) - 1)

\* slice(start, stop).indices(alen)[i] for one index, step 1
ClampIndex(i, alen) ==
  IF i < 0 THEN (IF i + alen < 0 THEN 0 ELSE i + alen)
  ELSE IF i > alen THEN alen ELSE i

slice_indices(start, stop, alen) ==
  [start |-> ClampIndex(start, alen), stop |-> ClampIndex(stop, alen)]

\* slice(start, None).indices(alen)
slice_indices_open(start, alen) ==
  [start |-> ClampIndex(start, alen), stop |-> alen]

\* v[start:stop] on a str
str_slice(v, start, stop) ==
  LET ix == slice_indices(start, stop, Len(v))
  IN  SubSeq(v, ix.start + 1, ix.stop)

\* ------------------------------------------------------------ char width
WIDE ==
  << <<4352, 4447>>, <<8986, 8987>>, <<9001, 9002>>, <<9193, 9196>>,
     <<9200, 9200>>, <<9203, 9203>>, <<9725, 9726>>, <<9748, 9749>>,
     <<9800, 9811>>, <<9855, 9855>>, <<9875, 9875>>, <<9889, 9889>>,
     <<9898, 9899>>, <<9917, 9918>>, <<9924, 9925>>, <<9934, 9934>>,
     <<9940, 9940>>, <<9962, 9962>>, <<9970, 9971>>, <<9973, 9973>>,
     <<9978, 9978>>, <<9981, 9981>>, <<9989, 9989>>, <<9994, 9995>>,
     <<10024, 10024>>, <<10060, 10060>>, <<10062, 10062>>, <<10067, 10069>>,
     <<10071, 10071>>, <<10133, 10135>>, <<10160, 10160>>, <<10175, 10175>>,
     <<11035, 11036>>, <<11088, 11088>>, <<11093, 11093>>, <<11904, 11929>>,
     <<11931, 12019>>, <<12032, 12245>>, <<12272, 12329>>, <<12336, 12350>>,
     <<12353, 12438>>, <<12443, 12543>>, <<12549, 12591>>, <<12593, 12686>>,
     <<12688, 12771>>, <<12783, 12830>>, <<12832, 12871>>, <<12880, 19903>>,
     <<19968, 42124>>, <<42128, 42182>>, <<43360, 43388>>, <<44032, 55203>>,
     <<63744, 64255>>, <<65040, 65049>>, <<65072, 65106>>, <<65108, 65126>>,
     <<65128, 65131>>, <<65281, 65376>>, <<65504, 65510>>, <<94176, 94179>>,
     <<94208, 100343>>, <<100352, 101589>>, <<101632, 101640>>, <<110576, 110579>>,
     <<110581, 110587>>, <<110589, 110590>>, <<110592, 110882>>, <<110898, 110898>>,
     <<110928, 110930>>, <<110933, 110933>>, <<110948, 110951>>, <<110960, 111355>>,
     <<126980, 126980>>, <<127183, 127183>>, <<127374, 127374>>, <<127377, 127386>>,
     <<127488, 127490>>, <<127504, 127547>>, <<127552, 127560>>, <<127568, 127569>>,
     <<127584, 127589>>, <<127744, 127776>>, <<127789, 127797>>, <<127799, 127868>>,
     <<127870, 127891>>, <<127904, 127946>>, <<127951, 127955>>, <<127968, 127984>>,
     <<127988, 127988>>, <<127992, 127994>>, <<128000, 128062>>, <<128064, 128064>>,
     <<128066, 128252>>, <<128255, 128317>>, <<128331, 128334>>, <<128336, 128359>>,
     <<128378, 128378>>, <<128405, 128406>>, <<128420, 128420>>, <<128507, 128591>>,
     <<128640, 128709>>, <<128716, 128716>>, <<128720, 128722>>, <<128725, 128727>>,
     <<128732, 128735>>, <<128747, 128748>>, <<128756, 128764>>, <<128992, 129003>>,
     <<129008, 129008>>, <<129292, 129338>>, <<129340, 129349>>, <<129351, 129535>>,
     <<129648, 129660>>, <<129664, 129672>>, <<129680, 129725>>, <<129727, 129733>>,
     <<129742, 129755>>, <<129760, 129768>>, <<129776, 129784>>, <<131072, 196605>>,
     <<196608, 262141>> >>

wcwidth_(ch) ==
  IF Len(ch) = 0 THEN 0
  ELSE LET ucs == ch[1] IN
       IF 32 <= ucs /\ ucs < 127 THEN 1
       ELSE IF ucs < 32 \/ (127 <= ucs /\ ucs < 160) THEN -1
       ELSE IF \E k \in 1..Len(WIDE) : WIDE[k][1] <= ucs /\ ucs <= WIDE[k][2] THEN 2
       ELSE 1

wcwidth(s) == IF IsCstr(s) THEN wcwidth_(s.value) ELSE wcwidth_(s.str)

\* ---------------------------------------------------------------- Colors
\* NamedColor: the fg and bg codes of each member
NamedColor ==
  [BLACK |-> <<30, 40>>, RED |-> <<31, 41>>, GREEN |-> <<32, 42>>,
   YELLOW |-> <<33, 43>>, BLUE |-> <<34, 44>>, MAGENTA |-> <<35, 45>>,
   CYAN |-> <<36, 46>>, WHITE |-> <<37, 47>>, DEFAULT |-> <<39, 49>>,
   BRIGHT_BLACK |-> <<90, 100>>, BRIGHT_RED |-> <<91, 101>>,
   BRIGHT_GREEN |-> <<92, 102>>, BRIGHT_YELLOW |-> <<93, 43>>,
   BRIGHT_BLUE |-> <<94, 104>>, BRIGHT_MAGENTA |-> <<95, 105>>,
   BRIGHT_CYAN |-> <<96, 106>>, BRIGHT_WHITE |-> <<97, 107>>]

\* Color(NamedColor.X)
Color(name) == [named |-> name]
red == Color("RED")

\* f'{n}' for an int n >= 0: its decimal digits as characters
RECURSIVE format_int(_)
format_int(n) ==
  IF n < 0 THEN <<45>> \o format_int(0 - n)
  ELSE IF n < 10 THEN <<48 + n>> ELSE Append(format_int(n \div 10), 48 + (n % 10))

\* isinstance(c, NamedColor), isinstance(c, FixedColor)
IsNamedColor(c) == "named" \in DOMAIN c
IsFixedColor(c) == "fixed" \in DOMAIN c

Color_fg_sgr(c) ==
  IF IsNamedColor(c)
  THEN IF c.named /= "DEFAULT" THEN format_int(NamedColor[c.named][1]) ELSE <<>>
  ELSE IF IsFixedColor(c) THEN <<51, 56, 59, 53, 59>> \o format_int(c.fixed)
  ELSE <<51, 56, 59, 50, 59>> \o format_int(c.red) \o <<59>> \o format_int(c.green)
         \o <<59>> \o format_int(c.blue)

Color_bg_sgr(c) ==
  IF IsNamedColor(c)
  THEN IF c.named /= "DEFAULT" THEN format_int(NamedColor[c.named][2]) ELSE <<>>
  ELSE IF IsFixedColor(c) THEN <<52, 56, 59, 53, 59>> \o format_int(c.fixed)
  ELSE <<52, 56, 59, 50, 59>> \o format_int(c.red) \o <<59>> \o format_int(c.green)
         \o <<59>> \o format_int(c.blue)

\* check_invalid_byte: what the call gives back; it raises nothing
check_invalid_byte(value) ==
  IF ~(0 <= value /\ value <= 255)
  THEN [returned |-> "ValueError", raised |-> FALSE]
  ELSE [returned |-> "None", raised |-> FALSE]

\* FixedColor(value), with __post_init__: the check's result is dropped
FixedColor(value) ==
  LET chk == check_invalid_byte(value)
  IN  [raised |-> chk.raised, value |-> [fixed |-> value]]

\* RgbColor(red, green, blue), with __post_init__
RgbColor(r, g, b) ==
  LET chk == <<check_invalid_byte(r), check_invalid_byte(g), check_invalid_byte(b)>>
  IN  [raised |-> \E k \in 1..3 : chk[k].raised,
       value |-> [red |-> r, green |-> g, blue |-> b]]

\* fixed(color)
fixed(color) == FixedColor(color)

\* rgb(r, g, b)
rgb(r, g, b) == RgbColor(r, g, b)

\* ----------------------------------------------------------------- Style
Style(fg, bg, bold_, italic_, underline_, blink_, reverse_, strikethrough_) ==
  [fg |-> fg, bg |-> bg, bold |-> bold_, italic |-> italic_,
   underline |-> underline_, blink |-> blink_, reverse |-> reverse_,
   strikethrough |-> strikethrough_]

default == Style(None, None, FALSE, FALSE, FALSE, FALSE, FALSE, FALSE)
bold == [default EXCEPT !.bold = TRUE]
\* the style of  s / red
fg_red == [default EXCEPT !.fg = red]

\* ';'.join(filter(None, codes))
RECURSIVE join_codes(_)
join_codes(codes) ==
  IF codes = <<>> THEN <<>>
  ELSE IF Head(codes) = <<>> THEN join_codes(Tail(codes))
  ELSE LET rest == join_codes(Tail(codes))
       IN  IF rest = <<>> THEN Head(codes) ELSE Head(codes) \o <<59>> \o rest

Style_sgr(self) ==
  join_codes(<< IF self.bold THEN <<49>> ELSE <<>>,
                IF self.italic THEN <<51>> ELSE <<>>,
                IF self.underline THEN <<52>> ELSE <<>>,
                IF self.blink THEN <<53>> ELSE <<>>,
                IF self.reverse THEN <<55>> ELSE <<>>,
                IF self.strikethrough THEN <<57>> ELSE <<>>,
                IF self.fg /= None THEN Color_fg_sgr(self.fg) ELSE <<>>,
                IF self.bg /= None THEN Color_bg_sgr(self.bg) ELSE <<>> >>)

\* Style.update forgetting the bold of self
Style_update_dropsBold(self, other) ==
  LET style == [self EXCEPT !.fg = IF other.fg /= None THEN other.fg ELSE @,
                            !.bg = IF other.bg /= None THEN other.bg ELSE @]
  IN  [style EXCEPT !.bold = other.bold,
                    !.italic = style.italic \/ other.italic,
                    !.blink = style.blink \/ other.blink,
                    !.underline = style.underline \/ other.underline,
                    !.reverse = style.reverse \/ other.reverse,
                    !.strikethrough = style.strikethrough \/ other.strikethrough]

\* Style.update
Style_update(self, other) ==
  LET style1 == IF other.fg /= None THEN [self EXCEPT !.fg = other.fg] ELSE self
      style == IF other.bg /= None THEN [style1 EXCEPT !.bg = other.bg] ELSE style1
  IN  [style EXCEPT !.bold = style.bold \/ other.bold,
                    !.italic = style.italic \/ other.italic,
                    !.blink = style.blink \/ other.blink,
                    !.underline = style.underline \/ other.underline,
                    !.reverse = style.reverse \/ other.reverse,
                    !.strikethrough = style.strikethrough \/ other.strikethrough]

\* isinstance(color_or_style, Color)
IsColor(x) == ~("bold" \in DOMAIN x)

\* ------------------------------------------------------------------ cstr
cstr(value, style) == [value |-> value, style |-> style]

\* cstr(): the cell after a wide character
cstr_empty == cstr(<<>>, default)
\* cstr(' ')
cstr_space == cstr(<<32>>, default)

\* cstr.__str__: '\x1b[' sgr 'm' value '\x1b[0m', or the bare value
cstr_str(self) ==
  IF self.style = default THEN self.value
  ELSE <<27, 91>> \o Style_sgr(self.style) \o <<109>> \o self.value \o <<27, 91, 48, 109>>

\* cstr.__truediv__
cstr_truediv(self, color_or_style) ==
  IF IsColor(color_or_style)
  THEN cstr(self.value, [self.style EXCEPT !.fg = color_or_style])
  ELSE cstr(self.value, Style_update(self.style, color_or_style))

cstr_getitem(c, start, stop) == cstr(str_slice(c.value, start, stop), c.style)

PyLen(s) ==
  IF IsStr(s) THEN Len(s.str)
  ELSE IF IsAnsiStr(s) THEN s.length
  ELSE Len(s.value)

\* --------------------------------------------------------------- AnsiStr
RECURSIVE AnsiStr_init_loop(_, _, _, _)
AnsiStr_init_loop(strs, k, data, length) ==
  IF k > Len(strs) THEN [data |-> data, length |-> length]
  ELSE LET s == strs[k] IN
    IF PyLen(s) = 0 THEN AnsiStr_init_loop(strs, k + 1, data, length)
    ELSE IF IsAnsiStr(s) THEN
      IF data = <<>> THEN
        AnsiStr_init_loop(strs, k + 1, s.data, length + s.length)
      ELSE IF Last(data).style = s.data[1].style THEN
        AnsiStr_init_loop(strs, k + 1,
          Append(Front(data), cstr(Last(data).value \o s.data[1].value, Last(data).style))
            \o Tail(s.data),
          length + s.length)
      ELSE AnsiStr_init_loop(strs, k + 1, data \o s.data, length + s.length)
    ELSE
      LET c == IF IsCstr(s) THEN s ELSE cstr(s.str, default)
          d == Append(data, c)
          n == Len(d)
      IN  IF n = 1 THEN AnsiStr_init_loop(strs, k + 1, d, length + PyLen(s))
          ELSE IF d[n].style = d[n - 1].style THEN
            AnsiStr_init_loop(strs, k + 1,
              Append(SubSeq(d, 1, n - 2), cstr(d[n - 1].value \o d[n].value, d[n - 1].style)),
              length + PyLen(s))
          ELSE AnsiStr_init_loop(strs, k + 1, d, length + PyLen(s))

AnsiStr_init(strs) == AnsiStr_init_loop(strs, 1, <<>>, 0)

\* first loop of __getitem__: discover where to start
RECURSIVE AnsiStr_getitem_skip(_, _, _, _)
AnsiStr_getitem_skip(data, i, start, stop) ==
  IF i < Len(data) /\ start - Len(data[i + 1].value) > 0
  THEN AnsiStr_getitem_skip(data, i + 1, start - Len(data[i + 1].value),
                            stop - Len(data[i + 1].value))
  ELSE [i |-> i, start |-> start, stop |-> stop]

\* the second loop slicing each run with start as it is, also when negative
RECURSIVE AnsiStr_getitem_take_rawStart(_, _, _, _, _)
AnsiStr_getitem_take_rawStart(data, i, start, stop, acc) ==
  IF i < Len(data) /\ stop > 0
  THEN AnsiStr_getitem_take_rawStart(data, i + 1, start - Len(data[i + 1].value),
         stop - Len(data[i + 1].value),
         Append(acc, cstr_getitem(data[i + 1], start, stop)))
  ELSE acc

\* second loop of __getitem__: construct the substring
RECURSIVE AnsiStr_getitem_take(_, _, _, _, _)
AnsiStr_getitem_take(data, i, start, stop, acc) ==
  IF i < Len(data) /\ stop > 0
  THEN AnsiStr_getitem_take(data, i + 1, start - Len(data[i + 1].value),
         stop - Len(data[i + 1].value),
         Append(acc, cstr_getitem(data[i + 1], IF start > 0 THEN start ELSE 0, stop)))
  ELSE acc

\* __getitem__ once start and stop are known
AnsiStr_getitem_at(self, ix) ==
  IF ix.start >= ix.stop THEN AnsiStr_init(<<>>)
  ELSE LET p == AnsiStr_getitem_skip(self.data, 0, ix.start, ix.stop)
       IN  AnsiStr_init(AnsiStr_getitem_take(self.data, p.i, p.start, p.stop, <<>>))

\* self[index] for an int index
AnsiStr_getitem(self, index) ==
  LET alen == self.length
      ix == IF index = -1 THEN slice_indices_open(-1, alen)
            ELSE slice_indices(index, index + 1, alen)
  IN  AnsiStr_getitem_at(self, ix)

\* self[start:stop]
AnsiStr_getitem_slice(self, start, stop) ==
  AnsiStr_getitem_at(self, slice_indices(start, stop, self.length))

\* AnsiStr.__add__
AnsiStr_add(self, s) == AnsiStr_init(<<self, s>>)

\* AnsiStr.__radd__
AnsiStr_radd(self, s) == AnsiStr_init(<<s, self>>)

\* __truediv__ putting the restyled runs side by side, without the constructor
AnsiStr_truediv_unmerged(self, color_or_style) ==
  [data |-> [k \in 1..Len(self.data) |-> cstr_truediv(self.data[k], color_or_style)],
   length |-> self.length]

\* AnsiStr.__truediv__
AnsiStr_truediv(self, color_or_style) ==
  AnsiStr_init([k \in 1..Len(self.data) |-> cstr_truediv(self.data[k], color_or_style)])

\* the for loop of __mul__: k more rounds of s = AnsiStr(*(s.data + self.data))
RECURSIVE AnsiStr_mul_loop(_, _, _)
AnsiStr_mul_loop(self, s, k) ==
  IF k <= 0 THEN s
  ELSE AnsiStr_mul_loop(self, AnsiStr_init(s.data \o self.data), k - 1)

\* __mul__ looping over range(1, n)
AnsiStr_mul_oneLess(self, n) == AnsiStr_mul_loop(self, AnsiStr_init(<<>>), n - 1)

\* AnsiStr.__mul__
AnsiStr_mul(self, n) == AnsiStr_mul_loop(self, AnsiStr_init(<<>>), n)

\* -------------------------------------------------------------- CharGrid
VARIABLES
  lines,   \* CharGrid.lines: a list of lines, a line is a list of cells
  call,    \* the last w[lin, col] = s and the exception it raised
  ncalls,  \* the number of calls made
  txt,     \* the AnsiStr at hand and the operation that made it
  sty,     \* the Style at hand and the overlays applied to it
  clr,     \* the last color constructed or rendered
  key,     \* the key decoder: its source, its reads and its result
  inp      \* input_int: its arguments, the entries typed and its result

vars == <<lines, call, ncalls, txt, sty, clr, key, inp>>

\* the variables of the other components, idle while the grid is at work
Idle == [op |-> "idle"]
notGrid == <<txt, sty, clr, key, inp>>

\* a Python list index: negative indices count from the end
PyIndex(line, i) == IF i < 0 THEN i + Len(line) ELSE i
InRange(line, i) == 0 <= PyIndex(line, i) /\ PyIndex(line, i) < Len(line)
\* line[i]
ListGet(line, i) == line[PyIndex(line, i) + 1]
\* line[i] = v, for i in range
ListSet(line, i, v) == [line EXCEPT ![PyIndex(line, i) + 1] = v]

RECURSIVE Repeat(_, _)
Repeat(v, n) == IF n <= 0 THEN <<>> ELSE Append(Repeat(v, n - 1), v)

\* while len(self.lines) <= lin: self.lines.append([])
AddMissingLines(ls, lin) == ls \o Repeat(<<>>, lin + 1 - Len(ls))

\* while len(line) <= col + len(s): line.append(None)
AddMissingColumns(line, col, n) == line \o Repeat(None, col + n + 1 - Len(line))

\* Fix wide char in col - 1 position
FixLeft(line, col) ==
  IF ListGet(line, col) = cstr_empty THEN ListSet(line, col - 1, cstr_space) ELSE line

\* CharOf giving every character the style of the first run of s
CharOf_firstStyle(s, i) ==
  IF IsStr(s) THEN cstr(<<s.str[i + 1]>>, default)
  ELSE cstr(AnsiStr_getitem(s, i).data[1].value, s.data[1].style)

\* the i-th character of s as a cell
CharOf(s, i) ==
  IF IsStr(s) THEN cstr(<<s.str[i + 1]>>, default)
  ELSE AnsiStr_getitem(s, i).data[1]

\* the for loop of __setitem__; raised is the exception that ended it
RECURSIVE DoTheWork(_, _, _, _)
DoTheWork(line, s, i, dest) ==
  IF i >= PyLen(s) THEN [line |-> line, dest |-> dest, raised |-> "no"]
  ELSE LET ch == CharOf(s, i) IN
    IF ~InRange(line, dest) THEN [line |-> line, dest |-> dest, raised |-> "IndexError"]
    ELSE LET l1 == ListSet(line, dest, ch) IN
      IF wcwidth(PyStr(ch.value)) = 2 THEN
        IF ~InRange(l1, dest + 1)
        THEN [line |-> l1, dest |-> dest + 1, raised |-> "IndexError"]
        ELSE DoTheWork(ListSet(l1, dest + 1, cstr_empty), s, i + 1, dest + 2)
      ELSE DoTheWork(l1, s, i + 1, dest + 1)

\* FixRight without the fix: the cell after the written ones is left as it is
FixRight_skipped(line, dest) == line

\* Fix empty left after copying s
FixRight(line, dest) ==
  IF dest < Len(line) /\ ListGet(line, dest) = cstr_empty
  THEN ListSet(line, dest, cstr_space) ELSE line

\* __setitem__ from its asserts on
setitem_write(ls, lin, col, s) ==
  IF ~(0 <= lin) \/ ~(0 <= col) THEN [lines |-> ls, raised |-> "AssertionError"]
  ELSE
    LET ls1 == AddMissingLines(ls, lin)
        l0 == FixLeft(AddMissingColumns(ls1[lin + 1], col, PyLen(s)), col)
        w == DoTheWork(l0, s, 0, col)
        l1 == IF w.raised = "no" THEN FixRight(w.line, w.dest) ELSE w.line
    IN  [lines |-> [ls1 EXCEPT ![lin + 1] = l1], raised |-> w.raised]

\* setitem returning on an empty s only after the lines and columns are added
setitem_growsFirst(ls, lin, col, s) ==
  IF PyLen(s) > 0 \/ ~(0 <= lin) \/ ~(0 <= col) THEN setitem_write(ls, lin, col, s)
  ELSE LET ls1 == AddMissingLines(ls, lin)
       IN  [lines |-> [ls1 EXCEPT ![lin + 1] = AddMissingColumns(ls1[lin + 1], col, 0)],
            raised |-> "no"]

\* CharGrid.__setitem__: the lines after the call and the exception raised
setitem(ls, lin, col, s) ==
  IF PyLen(s) = 0 THEN [lines |-> ls, raised |-> "no"]
  ELSE setitem_write(ls, lin, col, s)

\* LastCell without the loop over trailing absent cells
LastCell_untrimmed(line, last) == last

\* CharGrid.width
RECURSIVE LastCell(_, _)
LastCell(line, last) ==
  IF last >= 0 /\ line[last + 1] = None THEN LastCell(line, last - 1) ELSE last

RECURSIVE width_loop(_, _, _)
width_loop(ls, k, w) ==
  IF k > Len(ls) THEN w
  ELSE LET last == LastCell(ls[k], Len(ls[k]) - 1)
       IN  width_loop(ls, k + 1, IF last + 1 > w THEN last + 1 ELSE w)

width(ls) == width_loop(ls, 1, 0)

\* wcswidth of a str
RECURSIVE wcswidth_(_)
wcswidth_(v) == IF v = <<>> THEN 0 ELSE wcwidth_(<<Head(v)>>) + wcswidth_(Tail(v))

\* the cell shown at column i of a line: a space where nothing was written
Shown(line, i) ==
  IF i >= Len(line) \/ line[i + 1] = None THEN cstr_space ELSE line[i + 1]

\* CharGrid.print_content: the strings printed, one per line
RECURSIVE print_content_row(_, _, _)
print_content_row(line, w, i) ==
  IF i >= w THEN <<>>
  ELSE Shown(line, i).value \o print_content_row(line, w, i + 1)

print_content(ls) == [k \in 1..Len(ls) |-> print_content_row(ls[k], width(ls), 0)]

\* CharGrid_str_row appending every cell as a piece of its own
RECURSIVE CharGrid_str_row_unmerged(_, _, _, _)
CharGrid_str_row_unmerged(s, line, w, i) ==
  IF i >= w THEN s
  ELSE CharGrid_str_row_unmerged(Append(s, Shown(line, i)), line, w, i + 1)

\* CharGrid.__str__: the inner loop over the cells of one line
RECURSIVE CharGrid_str_row(_, _, _, _)
CharGrid_str_row(s, line, w, i) ==
  IF i >= w THEN s
  ELSE LET ss == Shown(line, i) IN
    IF Last(s).style = ss.style
    THEN CharGrid_str_row(Append(Front(s), cstr(Last(s).value \o ss.value, ss.style)),
                          line, w, i + 1)
    ELSE CharGrid_str_row(Append(s, ss), line, w, i + 1)

\* EndOfLine as '\r\n'
EndOfLine_crlf == cstr(<<13, 10>>, default)

\* the line terminator appended after each line: cstr('\n\r')
EndOfLine == cstr(<<10, 13>>, default)

\* CharGrid.__str__: the outer loop, giving the list s of pieces
RECURSIVE CharGrid_str_pieces(_, _, _)
CharGrid_str_pieces(s, ls, k) ==
  IF k > Len(ls) THEN s
  ELSE CharGrid_str_pieces(
         Append(CharGrid_str_row(s, ls[k], width(ls), 0), EndOfLine), ls, k + 1)

\* ''.join(map(str, s))
RECURSIVE join_str(_)
join_str(s) == IF s = <<>> THEN <<>> ELSE cstr_str(Head(s)) \o join_str(Tail(s))

CharGrid_str(ls) == join_str(CharGrid_str_pieces(<<cstr(<<>>, default)>>, ls, 1))

\* ----------------------------------------------------- inputs of the calls
\* 'a' (width 1) and U+65E5 (width 2) as one-character strings
chA == <<97>>
chW == <<26085>>

\* the strings written: str values and AnsiStr values built by the constructor
Contents ==
  { PyStr(<<>>), PyStr(chA), PyStr(chW), PyStr(chW \o chW),
    AnsiStr_init(<<cstr(chA, fg_red)>>),
    AnsiStr_init(<<cstr(chW, fg_red)>>),
    AnsiStr_init(<<cstr(chA, fg_red), PyStr(chA)>>) }

\* the strings written at a negative row or column
RejectedContents == {PyStr(<<>>), PyStr(chA)}

Lins == -1..MaxLin
Cols == -1..MaxCol

NoCall == [lin |-> 0, col |-> 0, s |-> PyStr(<<>>), raised |-> "none"]

Init ==
  /\ lines = <<>>
  /\ call = NoCall
  /\ ncalls = 0
  /\ txt = Idle
  /\ sty = Idle
  /\ clr = Idle
  /\ key = Idle
  /\ inp = Idle

\* w[lin, col] = s
SetItem(lin, col, s) ==
  /\ ncalls < MaxCalls
  /\ col + PyLen(s) <= MaxCol
  /\ (lin < 0 \/ col < 0) => (s \in RejectedContents /\ lin <= 0 /\ col <= 0)
  /\ LET r == setitem(lines, lin, col, s)
     IN  /\ lines' = r.lines
         /\ call' = [lin |-> lin, col |-> col, s |-> s, raised |-> r.raised]
  /\ ncalls' = ncalls + 1
  /\ UNCHANGED notGrid

Next == \E lin \in Lins, col \in Cols, s \in Contents : SetItem(lin, col, s)

Spec == Init /\ [][Next]_vars

\* ------------------------------------------------------------ vocabulary
IsPresent(c) == c /= None
IsPlaceholder(c) == c = cstr_empty
IsWideChar(c) == IsPresent(c) /\ ~IsPlaceholder(c) /\ wcwidth_(c.value) = 2

\* the call recorded in c went past the empty-content return
Wrote(c) == c.raised \in {"no", "IndexError"} /\ PyLen(c.s) > 0

\* the characters of a content, each as the one-character cell of its style
RECURSIVE RunCells(_)
RunCells(data) ==
  IF data = <<>> THEN <<>>
  ELSE [j \in 1..Len(Head(data).value) |-> cstr(<<Head(data).value[j]>>, Head(data).style)]
       \o RunCells(Tail(data))

CellsOf(s) ==
  IF IsStr(s) THEN [j \in 1..Len(s.str) |-> cstr(<<s.str[j]>>, default)]
  ELSE RunCells(s.data)

RECURSIVE SumWidths(_)
SumWidths(cells) ==
  IF cells = <<>> THEN 0 ELSE wcwidth_(Head(cells).value) + SumWidths(Tail(cells))

OnlyNarrow(s) == \A j \in 1..Len(CellsOf(s)) : wcwidth_(CellsOf(s)[j].value) = 1

\* row lin of a grid, empty when the grid has no such row
RowOf(ls, lin) == IF lin + 1 <= Len(ls) THEN ls[lin + 1] ELSE <<>>
\* cell i (from 0) of a line, None past its end
CellAt(line, i) == IF 0 <= i /\ i < Len(line) THEN line[i + 1] ELSE None

\* ---------------------------------------------------------------- claims

\* C1: in every reachable grid, each real character of display width 2 is
\* followed, in its line, by an existing cell holding the continuation
\* placeholder.
C1_WideHasPlaceholder ==
  \A k \in 1..Len(lines) : \A i \in 1..Len(lines[k]) :
    IsWideChar(lines[k][i]) =>
      (i + 1 <= Len(lines[k]) /\ IsPlaceholder(lines[k][i + 1]))

\* C2: a write with row, col >= 0 and non-empty content of width-1 and
\* width-2 characters completes: no index of the line it touches is out of
\* bounds.
C2_WriteCompletes ==
  (call.raised /= "none" /\ call.lin >= 0 /\ call.col >= 0 /\ PyLen(call.s) > 0)
    => call.raised = "no"

\* C3 (step): a write that starts on a continuation placeholder leaves a
\* space at col - 1, and a write that ends just before a continuation
\* placeholder turns that placeholder into a space.
C3_Step ==
  Wrote(call') =>
    LET col == call'.col
        pre == RowOf(lines, call'.lin)
        post == RowOf(lines', call'.lin)
        end == col + SumWidths(CellsOf(call'.s))
    IN  /\ IsPlaceholder(CellAt(pre, col)) =>
             (col >= 1 /\ CellAt(post, col - 1) = cstr_space)
        /\ IsPlaceholder(CellAt(pre, end)) => CellAt(post, end) = cstr_space

\* C3 (state): no continuation placeholder exists whose left neighbour is not
\* a character of display width 2.
C3_NoOrphanPlaceholder ==
  \A k \in 1..Len(lines) : \A i \in 1..Len(lines[k]) :
    IsPlaceholder(lines[k][i]) => (i >= 2 /\ IsWideChar(lines[k][i - 1]))

\* C3: overwriting one half of a wide character turns the other half into an
\* explicit space, so no continuation placeholder is ever left without its
\* wide character.
C3_HalfBecomesSpace == [][C3_Step]_vars /\ []C3_NoOrphanPlaceholder

\* C3 witness: a completed write ended just before the placeholder of a wide
\* character, which is now a space.
C3_Witness ==
  /\ call.raised = "no" /\ PyLen(call.s) > 0
  /\ CellAt(RowOf(lines, call.lin), call.col + SumWidths(CellsOf(call.s))) = cstr_space

\* C4: a write of n width-1 characters puts them, each with the style of its
\* run, in cells col..col+n-1; every other row keeps its content; in the
\* target row only col-1 and col+n may change besides, each only if a
\* continuation placeholder was at col, respectively at col+n; cells added by
\* growth and not written are absent.
C4_Step ==
  (Wrote(call') /\ OnlyNarrow(call'.s)) =>
    LET col == call'.col
        cells == CellsOf(call'.s)
        n == Len(cells)
        pre == RowOf(lines, call'.lin)
        post == RowOf(lines', call'.lin)
    IN  /\ call'.raised = "no"
        /\ Len(post) >= Len(pre) /\ Len(post) >= col + n
        /\ \A j \in 0..(n - 1) : CellAt(post, col + j) = cells[j + 1]
        /\ Len(lines') >= Len(lines)
        /\ \A k \in 1..Len(lines') : k /= call'.lin + 1 =>
             lines'[k] = (IF k <= Len(lines) THEN lines[k] ELSE <<>>)
        /\ \A i \in 0..(Len(post) - 1) :
             \/ (col <= i /\ i < col + n)
             \/ CellAt(post, i) = CellAt(pre, i)
             \/ (i = col - 1 /\ IsPlaceholder(CellAt(pre, col)))
             \/ (i = col + n /\ IsPlaceholder(CellAt(pre, col + n)))

C4_NarrowWriteFrame == [][C4_Step]_vars

\* C4 witness: the two-run string 'a' / red + 'a' was written at col >= 1
\* on the placeholder of a wide character, whose left half is now a space.
C4_Witness ==
  /\ call.raised = "no" /\ IsAnsiStr(call.s) /\ Len(call.s.data) = 2
  /\ OnlyNarrow(call.s)
  /\ call.col >= 1
  /\ CellAt(RowOf(lines, call.lin), call.col - 1) = cstr_space

\* C5: a write with a negative row or column is rejected, whatever the
\* content, the empty one included.
C5_NegativeRejected ==
  (call.raised /= "none" /\ (call.lin < 0 \/ call.col < 0))
    => call.raised = "AssertionError"

\* C6: a write of the empty content with row, col >= 0 changes nothing: no
\* line is added or extended, no cell changes, and width() is the same.
C6_Step ==
  (PyLen(call'.s) = 0 /\ call'.lin >= 0 /\ call'.col >= 0) =>
    /\ call'.raised = "no"
    /\ lines' = lines
    /\ width(lines') = width(lines)

C6_EmptyIsNoOp == [][C6_Step]_vars

\* C6 witness: the empty content was written at a row and a column beyond the
\* bounds of a grid that has content.
C6_Witness ==
  /\ call.raised = "no" /\ PyLen(call.s) = 0
  /\ Len(lines) > 0
  /\ call.lin >= Len(lines)
  /\ call.col > Len(lines[1])

\* the columns (from 1) that hold a non-absent cell in some line
UsedColumns ==
  UNION { {i \in 1..Len(lines[k]) : IsPresent(lines[k][i])} : k \in 1..Len(lines) }

\* C7: width() is 0 for a grid with no writes and otherwise the largest, over
\* the lines, of the index of the last non-absent cell plus one; trailing
\* absent cells do not count.
C7_WidthIsLastPresent ==
  /\ lines = <<>> => width(lines) = 0
  /\ UsedColumns = {} => width(lines) = 0
  /\ UsedColumns /= {} =>
       (width(lines) \in UsedColumns /\ \A i \in UsedColumns : i <= width(lines))

\* C7 witness: two lines of different used lengths, one of them longer than
\* width() because of trailing absent cells.
C7_Witness ==
  /\ Len(lines) = 2
  /\ width(lines) > 0
  /\ \E k \in 1..2 : Len(lines[k]) > width(lines)
  /\ \E k \in 1..2 : ~IsPresent(CellAt(lines[k], width(lines) - 1))

\* C8: the plain render has one row per line and every row has display width
\* exactly width().
C8_RowsHaveGridWidth ==
  /\ Len(print_content(lines)) = Len(lines)
  /\ \A k \in 1..Len(lines) : wcswidth_(print_content(lines)[k]) = width(lines)

\* ------------------------------------------- reading an escaped render
\* the position of the 'm' that ends the escape sequence starting at p
EscapeEnd(out, p) ==
  CHOOSE q \in (p + 1)..Len(out) :
    out[q] = 109 /\ \A r \in (p + 1)..(q - 1) : out[r] /= 109

\* Reads the output as a terminal does. text: every character shown, with
\* the SGR parameters in force (on = inside a span); opens, resets: the
\* number of ESC[...m and ESC[0m read; nested: a span opened inside a span
\* or a reset outside one.
RECURSIVE ReadEscapes(_, _, _, _)
ReadEscapes(out, p, cur, acc) ==
  IF p > Len(out) THEN [acc EXCEPT !.open = cur.on]
  ELSE IF out[p] = 27 THEN
    LET q == EscapeEnd(out, p)
        sgr == SubSeq(out, p + 2, q - 1)
    IN  IF sgr = <<48>>
        THEN ReadEscapes(out, q + 1, [on |-> FALSE, sgr |-> <<>>],
               [acc EXCEPT !.resets = @ + 1, !.nested = @ \/ ~cur.on])
        ELSE ReadEscapes(out, q + 1, [on |-> TRUE, sgr |-> sgr],
               [acc EXCEPT !.opens = @ + 1, !.nested = @ \/ cur.on])
  ELSE ReadEscapes(out, p + 1, cur,
         [acc EXCEPT !.text = Append(@, [ch |-> out[p], on |-> cur.on, sgr |-> cur.sgr])])

Read(out) ==
  ReadEscapes(out, 1, [on |-> FALSE, sgr |-> <<>>],
              [text |-> <<>>, opens |-> 0, resets |-> 0, nested |-> FALSE, open |-> FALSE])

\* what a cell shows: its characters, each under the SGR parameters of the
\* cell's style, none for the default style
ShownAs(c) ==
  [j \in 1..Len(c.value) |->
     [ch |-> c.value[j], on |-> c.style /= default,
      sgr |-> IF c.style /= default THEN Style_sgr(c.style) ELSE <<>>]]

RECURSIVE RowShownAs(_, _, _)
RowShownAs(line, w, i) ==
  IF i >= w THEN <<>> ELSE ShownAs(Shown(line, i)) \o RowShownAs(line, w, i + 1)

\* the characters of the whole grid as shown, each line ended by eol
RECURSIVE GridShownAs(_, _, _)
GridShownAs(ls, k, eol) ==
  IF k > Len(ls) THEN <<>>
  ELSE RowShownAs(ls[k], width(ls), 0) \o ShownAs(cstr(eol, default))
       \o GridShownAs(ls, k + 1, eol)

\* the cells that start a maximal run of one non-default style in their line
RunStarts(ls) ==
  { <<k, i>> \in (1..Len(ls)) \X (0..(width(ls) - 1)) :
      /\ Shown(ls[k], i).style /= default
      /\ (i = 0 \/ Shown(ls[k], i - 1).style /= Shown(ls[k], i).style) }

LF == <<10>>
CR == <<13>>

\* C9: in the escaped render every maximal run of adjacent cells of one
\* non-default style is one SGR span (one ESC[...m and one ESC[0m), cells of
\* the default style are outside every span, and no span holds a line end.
C9_OneSpanPerRun ==
  LET r == Read(CharGrid_str(lines)) IN
    /\ r.opens = Cardinality(RunStarts(lines))
    /\ r.resets = r.opens
    /\ ~r.nested /\ ~r.open
    /\ r.text = GridShownAs(lines, 1, LF \o CR)

\* C9 witness: a line shows two adjacent cells of the same non-default style
\* and a cell of the default style after them.
C9_Witness ==
  \E k \in 1..Len(lines) : \E i \in 0..(width(lines) - 3) :
    /\ Shown(lines[k], i).style = fg_red
    /\ Shown(lines[k], i + 1).style = fg_red
    /\ Shown(lines[k], i + 2).style = default
    /\ Shown(lines[k], i + 2).value /= <<>>

\* the characters of an output with the escape sequences taken out
PlainOf(out) == LET text == Read(out).text IN [j \in 1..Len(text) |-> text[j].ch]

\* the plain rows of the grid, each followed by eol, in row order
RECURSIVE RowsWith(_, _, _)
RowsWith(rows, k, eol) ==
  IF k > Len(rows) THEN <<>> ELSE rows[k] \o eol \o RowsWith(rows, k + 1, eol)

\* C10 as stated: the escaped render ends every line, in row order, with a
\* carriage return followed by a line feed.
C10_LineEndsCRLF ==
  PlainOf(CharGrid_str(lines)) = RowsWith(print_content(lines), 1, CR \o LF)

\* C10 as amended: the escaped render ends every line, in row order, with
\* exactly one line feed followed by a carriage return.
C10_LineEndsLFCR ==
  PlainOf(CharGrid_str(lines)) = RowsWith(print_content(lines), 1, LF \o CR)

\* C10 witness: a grid of two lines, the first shorter than the second.
C10_Witness ==
  /\ Len(lines) = 2
  /\ width(lines) >= 2
  /\ ~IsPresent(CellAt(lines[1], width(lines) - 1))

\* ======================================================================
\* AnsiStr on its own: construction, +, slicing, indexing, * and /
\* ======================================================================
MaxText == 2    \* longest string built by construction and concatenation
MaxRep == 2     \* largest n of  s * n
MaxMul == 6     \* longest string built by repetition

chB == <<98>>

\* the arguments of AnsiStr(...) and of +: str, cstr and AnsiStr values
Pieces ==
  { PyStr(chA), cstr(<<>>, fg_red), cstr(chA, fg_red), cstr(chB, default),
    AnsiStr_init(<<>>), AnsiStr_init(<<cstr(chA, fg_red), PyStr(chB)>>) }

\* the right operands of /: a Color and two Styles
Overlays == { red, fg_red, default }

TextIndices == (0 - MaxText - 1)..(MaxText + 1)

TextState(op, val, src, arg, i, j) ==
  [op |-> op, val |-> val, src |-> src, arg |-> arg, i |-> i, j |-> j]

notText == <<lines, call, ncalls, sty, clr, key, inp>>

InitText ==
  /\ lines = <<>>
  /\ call = NoCall
  /\ ncalls = 0
  /\ txt = TextState("new", AnsiStr_init(<<>>), None, None, 0, 0)
  /\ sty = Idle
  /\ clr = Idle
  /\ key = Idle
  /\ inp = Idle

\* AnsiStr(p, q)
TextNew(p, q) ==
  /\ PyLen(p) + PyLen(q) <= MaxText
  /\ txt' = TextState("new", AnsiStr_init(<<p, q>>), None, <<p, q>>, 0, 0)
  /\ UNCHANGED notText

\* t + p
TextAdd(p) ==
  /\ txt.val.length + PyLen(p) <= MaxText
  /\ txt' = TextState("add", AnsiStr_add(txt.val, p), txt.val, p, 0, 0)
  /\ UNCHANGED notText

\* p + t  for a str p
TextRadd(p) ==
  /\ IsStr(p)
  /\ txt.val.length + PyLen(p) <= MaxText
  /\ txt' = TextState("radd", AnsiStr_radd(txt.val, p), txt.val, p, 0, 0)
  /\ UNCHANGED notText

\* t[i:j]
TextSlice(i, j) ==
  /\ txt' = TextState("slice", AnsiStr_getitem_slice(txt.val, i, j), txt.val, None, i, j)
  /\ UNCHANGED notText

\* t[i]
TextIndex(i) ==
  /\ txt' = TextState("index", AnsiStr_getitem(txt.val, i), txt.val, None, i, 0)
  /\ UNCHANGED notText

\* t * n
TextMul(n) ==
  /\ n * txt.val.length <= MaxMul
  /\ txt' = TextState("mul", AnsiStr_mul(txt.val, n), txt.val, None, n, 0)
  /\ UNCHANGED notText

\* t / color_or_style
TextDiv(o) ==
  /\ txt' = TextState("div", AnsiStr_truediv(txt.val, o), txt.val, o, 0, 0)
  /\ UNCHANGED notText

NextText ==
  \/ \E p \in Pieces, q \in Pieces : TextNew(p, q)
  \/ \E p \in Pieces : TextAdd(p)
  \/ \E p \in Pieces : TextRadd(p)
  \/ \E i \in TextIndices, j \in TextIndices : TextSlice(i, j)
  \/ \E i \in TextIndices : TextIndex(i)
  \/ \E n \in -1..MaxRep : TextMul(n)
  \/ \E o \in Overlays : TextDiv(o)

SpecText == InitText /\ [][NextText]_vars

\* --- vocabulary of the claims about AnsiStr
RECURSIVE SumLens(_)
SumLens(data) == IF data = <<>> THEN 0 ELSE Len(Head(data).value) + SumLens(Tail(data))

Canonical(v) ==
  /\ \A k \in 1..Len(v.data) : Len(v.data[k].value) > 0
  /\ \A k \in 1..(Len(v.data) - 1) : v.data[k].style /= v.data[k + 1].style
  /\ v.length = SumLens(v.data)

\* a position counted from the end when negative, then clamped to 0..n
Norm(i, n) ==
  LET k == IF i < 0 THEN i + n ELSE i
  IN  IF k < 0 THEN 0 ELSE IF k > n THEN n ELSE k

\* the styled codepoints of t at positions a .. b-1
CellsBetween(t, a, b) ==
  LET n == Len(CellsOf(t))
      lo == Norm(a, n)
      hi == Norm(b, n)
  IN  IF lo >= hi THEN <<>> ELSE SubSeq(CellsOf(t), lo + 1, hi)

IsSliceOf(v, t, a, b) == Canonical(v) /\ RunCells(v.data) = CellsBetween(t, a, b)

RECURSIVE RepeatCells(_, _)
RepeatCells(cells, n) == IF n <= 0 THEN <<>> ELSE cells \o RepeatCells(cells, n - 1)

\* C11: every AnsiStr made by construction, +, slicing, indexing, * and / has
\* no empty run, no two adjacent runs of the same style, and a length equal to
\* the sum of the lengths of its runs.
C11_CanonicalForm == Canonical(txt.val)

\* an overlay that made two runs of different styles one run
C11_Witness ==
  /\ txt.op = "div"
  /\ Len(txt.src.data) >= 2
  /\ Len(txt.val.data) = 1
  /\ txt.val.length = txt.src.length

\* C12, the slice: t[i:j] holds the codepoints of t at the normalized
\* positions i .. j-1, in order and with their styles; t[0:len(t)] is t, and
\* it is empty when the normalized i is not below the normalized j.
C12_SliceIsSubsequence ==
  txt.op = "slice" =>
    /\ IsSliceOf(txt.val, txt.src, txt.i, txt.j)
    /\ (txt.i = 0 /\ txt.j = txt.src.length) => txt.val = txt.src
    /\ Norm(txt.i, txt.src.length) >= Norm(txt.j, txt.src.length)
         => txt.val = AnsiStr_init(<<>>)

\* C12 as stated: the slice holds the codepoints of the normalized positions,
\* and an int index i behaves as the slice [i, i+1) for every i.
C12_IndexIsUnitSlice ==
  /\ C12_SliceIsSubsequence
  /\ txt.op = "index" => IsSliceOf(txt.val, txt.src, txt.i, txt.i + 1)

\* C12 amended: the slice holds the codepoints of the normalized positions;
\* an int index i other than -1 behaves as the slice [i, i+1), and the index
\* -1 behaves as the slice [-1, len(t)): the last codepoint.
C12_IndexIsUnitSliceButLast ==
  /\ C12_SliceIsSubsequence
  /\ txt.op = "index" =>
       IF txt.i = -1 THEN IsSliceOf(txt.val, txt.src, -1, txt.src.length)
       ELSE IsSliceOf(txt.val, txt.src, txt.i, txt.i + 1)

\* the index -1 of a string of two runs gave its last codepoint
C12_Witness ==
  /\ txt.op = "index"
  /\ txt.i = -1
  /\ Len(txt.src.data) >= 2
  /\ txt.val = AnsiStr_init(<<Last(CellsOf(txt.src))>>)

\* a slice that cuts through two runs
C12_SliceWitness ==
  /\ txt.op = "slice"
  /\ Len(txt.src.data) >= 2
  /\ Len(txt.val.data) >= 2
  /\ txt.val.length < txt.src.length

\* C13: t * n is empty for n <= 0; for n > 0 it holds the codepoints of t
\* n times over, has length n * len(t), is what n - 1 concatenations of t
\* give, and the copies are merged where the last and first styles agree.
C13_RepeatIsConcat ==
  txt.op = "mul" =>
    LET t == txt.src
        n == txt.i
        seam == IF t.data /= <<>> /\ Last(t.data).style = Head(t.data).style THEN 1 ELSE 0
    IN  IF n <= 0 THEN txt.val = AnsiStr_init(<<>>)
        ELSE /\ RunCells(txt.val.data) = RepeatCells(CellsOf(t), n)
             /\ txt.val.length = n * t.length
             /\ Canonical(txt.val)
             /\ t.length > 0 => Len(txt.val.data) = n * Len(t.data) - (n - 1) * seam
             /\ n = 2 => txt.val = AnsiStr_add(t, t)

\* two copies of a string of several runs, merged at the seam
C13_Witness ==
  /\ txt.op = "mul"
  /\ txt.i = 2
  /\ Len(txt.src.data) >= 2
  /\ Last(txt.src.data).style = Head(txt.src.data).style
  /\ Len(txt.val.data) = 2 * Len(txt.src.data) - 1

\* ======================================================================
\* Style on its own: a base style and the overlays put on it
\* ======================================================================
MaxOverlays == 2    \* most overlays put on one base

green == Color("GREEN")

\* on(color)
on(color) == [default EXCEPT !.bg = color]

\* the styles used as base and as overlay
Styles ==
  { default, fg_red, [default EXCEPT !.fg = green],
    [default EXCEPT !.fg = Color("DEFAULT")], on(red), on(green),
    bold, [default EXCEPT !.italic = TRUE], [default EXCEPT !.underline = TRUE],
    [default EXCEPT !.blink = TRUE], [default EXCEPT !.reverse = TRUE],
    [default EXCEPT !.strikethrough = TRUE],
    [fg_red EXCEPT !.bold = TRUE, !.bg = green] }

notStyle == <<lines, call, ncalls, txt, clr, key, inp>>

InitStyle ==
  /\ lines = <<>>
  /\ call = NoCall
  /\ ncalls = 0
  /\ txt = Idle
  /\ sty = [op |-> "new", base |-> default, overlays |-> <<>>, val |-> default]
  /\ clr = Idle
  /\ key = Idle
  /\ inp = Idle

\* Style(...)
StyleNew(b) ==
  /\ sty' = [op |-> "new", base |-> b, overlays |-> <<>>, val |-> b]
  /\ UNCHANGED notStyle

\* style.update(o)
StyleUpdate(o) ==
  /\ Len(sty.overlays) < MaxOverlays
  /\ sty' = [sty EXCEPT !.op = "update", !.overlays = Append(@, o),
                        !.val = Style_update(sty.val, o)]
  /\ UNCHANGED notStyle

\* cstr(s, style) / o  for a Color o, which sets the foreground as the
\* overlay Style(fg=o) does
StyleDiv(o) ==
  /\ Len(sty.overlays) < MaxOverlays
  /\ sty' = [sty EXCEPT !.op = "div",
                        !.overlays = Append(@, [default EXCEPT !.fg = o]),
                        !.val = cstr_truediv(cstr(chA, sty.val), o).style]
  /\ UNCHANGED notStyle

NextStyle ==
  \/ \E b \in Styles : StyleNew(b)
  \/ \E o \in Styles : StyleUpdate(o)
  \/ \E o \in {red, green} : StyleDiv(o)

SpecStyle == InitStyle /\ [][NextStyle]_vars

\* --- vocabulary of the claim about Style.update
Attributes == {"bold", "italic", "underline", "blink", "reverse", "strikethrough"}

\* the field (fg or bg) of the last overlay that sets it, the base's if none does
RECURSIVE LastSet(_, _, _)
LastSet(base, overlays, field) ==
  IF overlays = <<>> THEN base[field]
  ELSE IF Last(overlays)[field] /= None THEN Last(overlays)[field]
  ELSE LastSet(base, Front(overlays), field)

OrOfAll(base, overlays, attr) ==
  base[attr] \/ \E k \in 1..Len(overlays) : overlays[k][attr]

\* C14: after any sequence of overlays the foreground and the background are
\* those of the last overlay that sets them (the base's if none does) and each
\* boolean attribute is the OR over the base and the overlays; update with the
\* default style is the identity, and update is associative.
C14_LastSetWinsAndOr ==
  sty.op /= "idle" =>
    /\ sty.val.fg = LastSet(sty.base, sty.overlays, "fg")
    /\ sty.val.bg = LastSet(sty.base, sty.overlays, "bg")
    /\ \A attr \in Attributes : sty.val[attr] = OrOfAll(sty.base, sty.overlays, attr)
    /\ \A attr \in Attributes : sty.base[attr] => sty.val[attr]
    /\ Style_update(sty.val, default) = sty.val
    /\ \A a \in Styles, b \in Styles :
         Style_update(Style_update(sty.val, a), b) = Style_update(sty.val, Style_update(a, b))

\* the first of two overlays set the foreground over the base's, the second
\* did not, and the bold of the base survived both
C14_Witness ==
  /\ sty.op = "update"
  /\ Len(sty.overlays) = 2
  /\ sty.base.fg /= None
  /\ sty.overlays[1].fg /= None
  /\ sty.overlays[1].fg /= sty.base.fg
  /\ sty.overlays[2].fg = None
  /\ sty.val.fg = sty.overlays[1].fg
  /\ sty.base.bold /\ ~sty.overlays[1].bold /\ ~sty.overlays[2].bold /\ sty.val.bold

\* ======================================================================
\* Colors on their own: fixed(n), rgb(r, g, b) and the named colors
\* ======================================================================
\* the components tried: below, at and above each end of 0..255
Components == {-1, 0, 7, 255, 256}

NamedColors == DOMAIN NamedColor

notColor == <<lines, call, ncalls, txt, sty, key, inp>>

ColorState(op, args, made) ==
  [op |-> op, args |-> args, raised |-> made.raised,
   val |-> IF made.raised THEN None ELSE made.value,
   fg |-> IF made.raised THEN <<>> ELSE Color_fg_sgr(made.value),
   bg |-> IF made.raised THEN <<>> ELSE Color_bg_sgr(made.value)]

InitColor ==
  /\ lines = <<>>
  /\ call = NoCall
  /\ ncalls = 0
  /\ txt = Idle
  /\ sty = Idle
  /\ clr = ColorState("named", <<"RED">>, [raised |-> FALSE, value |-> red])
  /\ key = Idle
  /\ inp = Idle

\* fixed(n)
ColorFixed(n) ==
  /\ clr' = ColorState("fixed", <<n>>, fixed(n))
  /\ UNCHANGED notColor

\* rgb(r, g, b)
ColorRgb(r, g, b) ==
  /\ clr' = ColorState("rgb", <<r, g, b>>, rgb(r, g, b))
  /\ UNCHANGED notColor

\* Color(NamedColor.X)
ColorNamed(name) ==
  /\ clr' = ColorState("named", <<name>>, [raised |-> FALSE, value |-> Color(name)])
  /\ UNCHANGED notColor

NextColor ==
  \/ \E n \in Components : ColorFixed(n)
  \/ \E r \in Components, g \in Components, b \in Components : ColorRgb(r, g, b)
  \/ \E name \in NamedColors : ColorNamed(name)

SpecColor == InitColor /\ [][NextColor]_vars

\* --- vocabulary of the claims about colors
InByte(n) == 0 <= n /\ n <= 255

Stored(c) == IF IsFixedColor(c) THEN <<c.fixed>> ELSE <<c.red, c.green, c.blue>>

\* C15: fixed(n) and rgb(r, g, b) fail when a component is outside 0..255, so
\* that no Color holds such a component, and store their arguments otherwise.
C15_OutOfRangeFails ==
  clr.op \in {"fixed", "rgb"} =>
    IF \E k \in 1..Len(clr.args) : ~InByte(clr.args[k])
    THEN clr.raised /\ clr.val = None
    ELSE ~clr.raised /\ Stored(clr.val) = clr.args

\* C16: a named color other than Default has a foreground code in 30..37 or
\* 90..97 and a background code in 40..47 or 100..107 that is the foreground
\* code plus 10; Default renders as the empty string for both.
C16_BackgroundIsForegroundPlus10 ==
  clr.op = "named" =>
    IF clr.args[1] /= "DEFAULT"
    THEN /\ \E f \in (30..37) \cup (90..97) : clr.fg = format_int(f) /\ clr.bg = format_int(f + 10)
         /\ \E b \in (40..47) \cup (100..107) : clr.bg = format_int(b)
    ELSE clr.fg = <<>> /\ clr.bg = <<>>

\* ======================================================================
\* The key decoder: _read over a source of characters
\* ======================================================================
MaxReads == 6    \* characters a source delivers before it runs dry

\* the members of SpecialKey in order, each with its seqs
SpecialKey ==
  << <<"ESC", <<>> >>,                                     \*
     <<"CRTL_C", << <<3>> >> >>,                             \* '\x03'
     <<"TAB", << <<9>> >> >>,                                \* '\t'
     <<"ENTER", << <<10>> >> >>,                             \* '\n'
     <<"BACKSPACE", << <<127>> >> >>,                        \* '\x7f'
     <<"UP", << <<91, 65>>, <<79, 65>> >> >>,                \* '[A' 'OA'
     <<"DOWN", << <<91, 66>>, <<79, 66>> >> >>,              \* '[B' 'OB'
     <<"RIGHT", << <<91, 67>>, <<79, 67>> >> >>,             \* '[C' 'OC'
     <<"LEFT", << <<91, 68>>, <<79, 68>> >> >>,              \* '[D' 'OD'
     <<"HOME", << <<91, 72>>, <<79, 72>>, <<91, 49, 126>> >> >>, \* '[H' 'OH' '[1~'
     <<"INSERT", << <<91, 50, 126>> >> >>,                   \* '[2~'
     <<"DEL", << <<91, 51, 126>> >> >>,                      \* '[3~'
     <<"END", << <<91, 70>>, <<79, 70>>, <<91, 52, 126>> >> >>, \* '[F' 'OF' '[4~'
     <<"PGUP", << <<91, 53, 126>> >> >>,                     \* '[5~'
     <<"PGDOWN", << <<91, 54, 126>> >> >>,                   \* '[6~'
     <<"F1", << <<79, 80>> >> >>,                            \* 'OP'
     <<"F2", << <<79, 81>> >> >>,                            \* 'OQ'
     <<"F3", << <<79, 82>> >> >>,                            \* 'OR'
     <<"F4", << <<79, 83>> >> >>,                            \* 'OS'
     <<"F5", << <<91, 49, 53, 126>> >> >>,                   \* '[15~'
     <<"F6", << <<91, 49, 55, 126>> >> >>,                   \* '[17~'
     <<"F7", << <<91, 49, 56, 126>> >> >>,                   \* '[18~'
     <<"F8", << <<91, 49, 57, 126>> >> >>,                   \* '[19~'
     <<"F9", << <<91, 50, 48, 126>> >> >>,                   \* '[20~'
     <<"F10", << <<91, 50, 49, 126>> >> >>,                  \* '[21~'
     <<"F11", << <<91, 50, 51, 126>> >> >>,                  \* '[23~'
     <<"F12", << <<91, 50, 52, 126>> >> >>,                  \* '[24~'
     <<"CRTL_UP", << <<91, 49, 59, 53, 65>> >> >>,           \* '[1;5A'
     <<"CRTL_DOWN", << <<91, 49, 59, 53, 66>> >> >>,         \* '[1;5B'
     <<"CRTL_RIGHT", << <<91, 49, 59, 53, 67>> >> >>,        \* '[1;5C'
     <<"CRTL_LEFT", << <<91, 49, 59, 53, 68>> >> >>,         \* '[1;5D'
     <<"CRTL_HOME", << <<91, 49, 59, 53, 72>> >> >>,         \* '[1;5H'
     <<"CRTL_INSERT", << <<91, 50, 59, 53, 126>> >> >>,      \* '[2;5~'
     <<"CRTL_DEL", << <<91, 51, 59, 53, 126>> >> >>,         \* '[3;5~'
     <<"CRTL_END", << <<91, 49, 59, 53, 70>> >> >>,          \* '[1;5F'
     <<"CRTL_PGUP", << <<91, 54, 59, 53, 126>> >> >>,        \* '[6;5~'
     <<"CRTL_PGDOWN", << <<91, 53, 59, 53, 126>> >> >> >>    \* '[5;5~'

\* SpecialKey.X as a value; a str result is PyStr(...)
Key(name) == [key |-> name]

\* SpecialKey.get matching any seq that starts with the one given
RECURSIVE SpecialKey_get_prefix(_, _)
SpecialKey_get_prefix(seq, k) ==
  IF k > Len(SpecialKey) THEN PyStr(<<>>)
  ELSE IF \E j \in 1..Len(SpecialKey[k][2]) :
            /\ Len(SpecialKey[k][2][j]) >= Len(seq)
            /\ SubSeq(SpecialKey[k][2][j], 1, Len(seq)) = seq
       THEN Key(SpecialKey[k][1])
       ELSE SpecialKey_get_prefix(seq, k + 1)

\* a lookup that raises KeyError when no member lists seq, as table[seq] does
RECURSIVE SpecialKey_get_raising(_, _)
SpecialKey_get_raising(seq, k) ==
  IF k > Len(SpecialKey) THEN [raised |-> "KeyError"]
  ELSE IF \E j \in 1..Len(SpecialKey[k][2]) : SpecialKey[k][2][j] = seq
       THEN Key(SpecialKey[k][1])
       ELSE SpecialKey_get_raising(seq, k + 1)

\* SpecialKey.get: the loop from member k on
RECURSIVE SpecialKey_get(_, _)
SpecialKey_get(seq, k) ==
  IF k > Len(SpecialKey) THEN PyStr(<<>>)
  ELSE IF \E j \in 1..Len(SpecialKey[k][2]) : SpecialKey[k][2][j] = seq
       THEN Key(SpecialKey[k][1])
       ELSE SpecialKey_get(seq, k + 1)

\* strings of one character, by the name of the character
ESC == <<27>>
ETX == <<3>>
BS == <<8>>
TAB == <<9>>
DEL == <<127>>

\* str.isdigit for a string of at most one character: the ASCII digits and,
\* among the other digits of Unicode, the superscripts and the Arabic-Indic ones
isdigit(ch) ==
  /\ ch /= <<>>
  /\ ch[1] \in (48..57) \cup {178, 179, 185} \cup (1632..1641)

\* the control keys with BS left out
control_key_withoutBS(ch) ==
  IF ch = ETX THEN Key("CRTL_C")
  ELSE IF ch = TAB THEN Key("TAB")
  ELSE IF ch = CR \/ ch = LF THEN Key("ENTER")
  ELSE IF ch = DEL THEN Key("BACKSPACE")
  ELSE IF ch[1] < 32 THEN PyStr(<<>>)
  ELSE PyStr(ch)

\* _read for a first character that is not ESC
control_key(ch) ==
  IF ch = ETX THEN Key("CRTL_C")
  ELSE IF ch = TAB THEN Key("TAB")
  ELSE IF ch = CR \/ ch = LF THEN Key("ENTER")
  ELSE IF ch = DEL \/ ch = BS THEN Key("BACKSPACE")
  ELSE IF ch[1] < 32 THEN PyStr(<<>>)
  ELSE PyStr(ch)

\* the test written  ch in '?O['  : true of the empty string too
IsIntroducer_substring(ch) == ch \in {<<>>, <<63>>, <<79>>, <<91>>}

\* ch in ['?', 'O', '[']
IsIntroducer(ch) == ch \in {<<63>>, <<79>>, <<91>>}

\* the decoder between two reads: where it is, the sequence so far, its result
Decoder(pc, seq, result) == [pc |-> pc, seq |-> seq, result |-> result]
Done(result) == Decoder("done", <<>>, result)

\* _read from one call of next() to the following one, ch being what the call
\* of next() gave: a string of one character, or the empty string
read_step(d, ch) ==
  CASE d.pc = "first" ->
         IF ch = <<>> THEN Done(PyStr(<<>>))
         ELSE IF ch /= ESC THEN Done(control_key(ch))
         ELSE Decoder("second", <<>>, None)
    [] d.pc = "second" ->
         IF ~IsIntroducer(ch) THEN Done(Key("ESC"))
         ELSE IF ch \in {<<63>>, <<79>>} THEN Decoder("letter", ch, None)
         ELSE Decoder("bracket", <<>>, None)
    [] d.pc = "letter" -> Done(SpecialKey_get(d.seq \o ch, 1))
    [] d.pc = "bracket" ->
         IF ~isdigit(ch) THEN Done(SpecialKey_get(<<91>> \o ch, 1))
         ELSE Decoder("run1", <<91>> \o ch, None)
    [] d.pc = "run1" ->
         IF isdigit(ch) THEN Decoder("run1", d.seq \o ch, None)
         ELSE IF ch /= <<59>> THEN Done(SpecialKey_get(d.seq \o ch, 1))
         ELSE Decoder("run2", d.seq \o <<59>>, None)
    [] d.pc = "run2" ->
         IF isdigit(ch) THEN Decoder("run2", d.seq \o ch, None)
         ELSE Done(SpecialKey_get(d.seq \o ch, 1))

\* what the first call of next() may give, and what the later ones may give
FirstChars == { ETX, TAB, CR, LF, DEL, BS, <<1>>, <<97>>, <<91>>, ESC }
LaterChars ==
  { <<63>>, <<79>>, <<91>>, <<49>>, <<53>>, <<57>>, <<59>>, <<126>>,
    <<65>>, <<80>>, <<97>>, <<178>>, ESC }

notKey == <<lines, call, ncalls, txt, sty, clr, inp>>

\* a call of _read that has read nothing yet
Called == [d |-> Decoder("first", <<>>, None), reads |-> <<>>]

InitKey ==
  /\ lines = <<>>
  /\ call = NoCall
  /\ ncalls = 0
  /\ txt = Idle
  /\ sty = Idle
  /\ clr = Idle
  /\ key = Called
  /\ inp = Idle

\* _read(next) is called on a new source
KeyCall ==
  /\ key.d.pc = "done"
  /\ key' = Called
  /\ UNCHANGED notKey

\* next() gives a character and _read runs up to its next call of next()
KeyRead(ch) ==
  /\ key.d.pc /= "done"
  /\ Len(key.reads) < MaxReads
  /\ ch \in (IF key.reads = <<>> THEN FirstChars ELSE LaterChars)
  /\ key' = [d |-> read_step(key.d, ch), reads |-> Append(key.reads, ch)]
  /\ UNCHANGED notKey

\* next() gives the empty string: no data
KeyNoData ==
  /\ key.d.pc /= "done"
  /\ key' = [d |-> read_step(key.d, <<>>), reads |-> Append(key.reads, <<>>)]
  /\ UNCHANGED notKey

NextKey ==
  \/ KeyCall
  \/ \E ch \in FirstChars \cup LaterChars : KeyRead(ch)
  \/ KeyNoData

SpecKey == InitKey /\ [][NextKey]_vars

\* --- vocabulary of the claims about the decoder
Returned == key.d.pc = "done"
NoKey == PyStr(<<>>)

RECURSIVE Concat(_)
Concat(strs) == IF strs = <<>> THEN <<>> ELSE Head(strs) \o Concat(Tail(strs))

\* the members of SpecialKey whose list holds seq
Listing(seq) ==
  { k \in 1..Len(SpecialKey) : \E j \in 1..Len(SpecialKey[k][2]) : SpecialKey[k][2][j] = seq }

\* C17: a first read of no data gives 'no key' with no further read; a first
\* character other than ESC is decoded after exactly one read: Interrupt for
\* 0x03, Tab for TAB, Enter for CR or LF, Backspace for DEL or BS, 'no key'
\* for any other character below 0x20, the character itself otherwise.
C17_OneReadKeys ==
  (key.reads /= <<>> /\ key.reads[1] /= ESC) =>
    LET ch == key.reads[1]
    IN  /\ Returned
        /\ Len(key.reads) = 1
        /\ key.d.result =
             IF ch = <<>> THEN NoKey
             ELSE IF ch = <<3>> THEN Key("CRTL_C")
             ELSE IF ch = <<9>> THEN Key("TAB")
             ELSE IF ch \in {<<13>>, <<10>>} THEN Key("ENTER")
             ELSE IF ch \in {<<127>>, <<8>>} THEN Key("BACKSPACE")
             ELSE IF ch[1] < 32 THEN NoKey
             ELSE PyStr(ch)

\* BS was read and Backspace returned
C17_Witness ==
  /\ Returned
  /\ key.reads = << <<8>> >>
  /\ key.d.result = Key("BACKSPACE")

\* C18: after ESC, a second read of anything but '?', 'O' or '[', no data
\* included, ends the call with the ESC key after exactly two reads.
C18_BareEsc ==
  (Len(key.reads) >= 2 /\ key.reads[1] = ESC
     /\ key.reads[2] \notin {<<63>>, <<79>>, <<91>>}) =>
    /\ Returned
    /\ Len(key.reads) = 2
    /\ key.d.result = Key("ESC")

\* ESC and then no data
C18_Witness ==
  /\ Returned
  /\ key.reads = <<ESC, <<>> >>
  /\ key.d.result = Key("ESC")

\* C19: after ESC and '?', 'O' or '[', the call returns the SpecialKey whose
\* list holds the sequence read after ESC, and 'no key' when no list holds
\* it; never ESC, never a character.
C19_ExactSuffixLookup ==
  (Returned /\ Len(key.reads) >= 2 /\ key.reads[1] = ESC
     /\ key.reads[2] \in {<<63>>, <<79>>, <<91>>}) =>
    LET seq == Concat(Tail(key.reads))
    IN  /\ IF Listing(seq) = {} THEN key.d.result = NoKey
           ELSE \E k \in Listing(seq) : key.d.result = Key(SpecialKey[k][1])
        /\ key.d.result /= Key("ESC")
        /\ ~IsStr(key.d.result) \/ key.d.result = NoKey

\* ESC [ 1 ; 5 A gave Ctrl-Up
C19_Witness ==
  /\ Returned
  /\ key.reads = <<ESC, <<91>>, <<49>>, <<59>>, <<53>>, <<65>> >>
  /\ key.d.result = Key("CRTL_UP")

\* the unlisted ESC [ 9 9 ~ gave 'no key'
C19_UnlistedWitness ==
  /\ Returned
  /\ key.reads = <<ESC, <<91>>, <<57>>, <<57>>, <<126>> >>
  /\ key.d.result = NoKey

\* ======================================================================
\* input_int: the prompt loop
\* ======================================================================
MaxAbs == 2        \* bounds, defaults and entries lie in -MaxAbs..MaxAbs
MaxEntries == 2    \* entries typed in answer to one call

\* an int as an optional argument, beside None
PyInt(v) == [int |-> v]

\* bool(x) for x: int | None
Truthy(x) == x /= None /\ x.int /= 0

\* s.strip() for the blanks of the entries tried
RECURSIVE lstrip(_)
lstrip(s) == IF s /= <<>> /\ Head(s) = 32 THEN lstrip(Tail(s)) ELSE s
RECURSIVE rstrip(_)
rstrip(s) == IF s /= <<>> /\ Last(s) = 32 THEN rstrip(Front(s)) ELSE s

\* the value of a string of ASCII digits
RECURSIVE digits_value(_)
digits_value(s) == IF s = <<>> THEN 0 ELSE 10 * digits_value(Front(s)) + (Last(s) - 48)

\* int(s): blanks around, an optional sign, then digits and nothing else;
\* None stands for the ValueError
int(s) ==
  LET t == rstrip(lstrip(s))
      signed == t /= <<>> /\ Head(t) \in {43, 45}
      body == IF signed THEN Tail(t) ELSE t
  IN  IF body = <<>> \/ \E k \in 1..Len(body) : body[k] \notin 48..57 THEN None
      ELSE PyInt(IF signed /\ Head(t) = 45 THEN 0 - digits_value(body) ELSE digits_value(body))

\* min and val < min or max and max < val
out_of_bounds(min, max, val) ==
  (Truthy(min) /\ val < min.int) \/ (Truthy(max) /\ max.int < val)

\* one round of the while loop of input_int on the entry s: the value
\* returned, or None when the round ends in the except clause
input_int_round(min, max, default_, s) ==
  IF s = <<>> /\ default_ /= None THEN default_
  ELSE LET val == int(s)
       IN  IF val = None THEN None
           ELSE IF out_of_bounds(min, max, val.int) THEN None
           ELSE val

Optional == {None} \cup {PyInt(v) : v \in (0 - MaxAbs)..MaxAbs}

\* what is typed: nothing, the ints in range and one beyond each end, and
\* entries that are not ints or are ints written otherwise
Entries ==
  {<<>>} \cup {format_int(v) : v \in (0 - MaxAbs - 1)..(MaxAbs + 1)}
    \cup { <<120>>, <<49, 46, 48>>, <<32, 49, 32>>, <<43, 49>>, <<45>> }

notInput == <<lines, call, ncalls, txt, sty, clr, key>>

\* input_int(min=..., max=..., default=...) at its first prompt
Prompting(min, max, default_) ==
  [pc |-> "prompt", min |-> min, max |-> max, default |-> default_,
   entry |-> None, entries |-> 0, result |-> None]

InitInput ==
  /\ lines = <<>>
  /\ call = NoCall
  /\ ncalls = 0
  /\ txt = Idle
  /\ sty = Idle
  /\ clr = Idle
  /\ key = Idle
  /\ inp = Prompting(None, None, None)

\* input_int is called
InputCall(min, max, default_) ==
  /\ inp.pc = "returned" \/ inp.entries = 0
  /\ inp' = Prompting(min, max, default_)
  /\ UNCHANGED notInput

\* _input returns the entry s and the round of the loop runs
InputEntry(s) ==
  /\ inp.pc = "prompt"
  /\ inp.entries < MaxEntries
  /\ LET r == input_int_round(inp.min, inp.max, inp.default, s)
     IN  inp' = [inp EXCEPT !.entry = PyStr(s), !.entries = @ + 1, !.result = r,
                            !.pc = IF r = None THEN "prompt" ELSE "returned"]
  /\ UNCHANGED notInput

NextInput ==
  \/ \E min \in Optional, max \in Optional, default_ \in Optional : InputCall(min, max, default_)
  \/ \E s \in Entries : InputEntry(s)

SpecInput == InitInput /\ [][NextInput]_vars

\* --- vocabulary of the claim about input_int
\* the entries that read as the int v
Reads(s, v) == s \in {format_int(v), <<32>> \o format_int(v) \o <<32>>, <<43>> \o format_int(v)}

WithinBounds(v) ==
  /\ inp.min /= None => inp.min.int <= v
  /\ inp.max /= None => v <= inp.max.int

\* C20: a value returned for an entry lies within every bound given, 0 and
\* negative bounds included; an entry out of the bounds or not an int is
\* rejected and the prompt repeated; an empty entry returns the default when
\* there is one.
C20_ReturnsWithinBounds ==
  inp.entries > 0 =>
    IF inp.entry.str = <<>> /\ inp.default /= None
    THEN inp.pc = "returned" /\ inp.result = inp.default
    ELSE IF \E v \in (0 - MaxAbs - 1)..(MaxAbs + 1) : Reads(inp.entry.str, v) /\ WithinBounds(v)
    THEN inp.pc = "returned" /\ Reads(inp.entry.str, inp.result.int)
    ELSE inp.pc = "prompt"

\* ======================================================================
\* The key decoder on a source that answers every call of next() at once
\* ======================================================================
\* _read is one synchronous loop and next() never blocks (it gives the empty
\* string when nothing is there), so a call that has not returned goes on
SpecKeyFair == SpecKey /\ WF_vars(KeyNoData \/ \E ch \in FirstChars \cup LaterChars : KeyRead(ch))

\* the call met the end of the stream inside an escape sequence
Truncated ==
  /\ Returned
  /\ Len(key.reads) >= 2
  /\ key.reads[1] = ESC
  /\ Last(key.reads) = <<>>

\* C21: on a source that gives finitely many characters and then no data, a
\* call of the decoder returns; an escape sequence cut by the end of the
\* stream gives the ESC key (ESC alone) or 'no key', and no error.
C21_TerminatesOnFiniteSource ==
  /\ [](key.d.pc /= "done" => <>(key.d.pc = "done"))
  /\ [](Truncated =>
          key.d.result = IF Len(key.reads) = 2 THEN Key("ESC") ELSE NoKey)

\* ESC [ 1 ; 5 and then the end of the stream gave 'no key'
C21_Witness ==
  /\ Truncated
  /\ key.reads = <<ESC, <<91>>, <<49>>, <<59>>, <<53>>, <<>> >>
  /\ key.d.result = NoKey

\* ======================================================================
\* Successive calls of the decoder on one source, as the loop of run_app
\* makes them
\* ======================================================================
MaxStream == 4    \* characters one source delivers

\* the characters of the stream: ESC, 'a', '[', 'A', '1'
StreamChars == { ESC, <<97>>, <<91>>, <<65>>, <<49>> }

\* a call of _read that has read nothing yet, on a source that has delivered
\* stream so far and whose earlier calls returned keys ('' left out)
StreamCalled(stream, keys, eof) ==
  [d |-> Decoder("first", <<>>, None), reads |-> <<>>,
   stream |-> stream, keys |-> keys, eof |-> eof]

\* the results that run_app hands on: every one but ''
Handed(keys, d) ==
  IF d.pc = "done" /\ d.result /= PyStr(<<>>) THEN Append(keys, d.result) ELSE keys

InitStream ==
  /\ lines = <<>>
  /\ call = NoCall
  /\ ncalls = 0
  /\ txt = Idle
  /\ sty = Idle
  /\ clr = Idle
  /\ key = StreamCalled(<<>>, <<>>, FALSE)
  /\ inp = Idle

\* read() is called again on the same source
StreamCall ==
  /\ key.d.pc = "done"
  /\ key' = StreamCalled(key.stream, key.keys, key.eof)
  /\ UNCHANGED notKey

\* next() gives the next character of the stream
StreamRead(ch) ==
  /\ key.d.pc /= "done"
  /\ ~key.eof
  /\ Len(key.stream) < MaxStream
  /\ LET d == read_step(key.d, ch)
     IN  key' = [key EXCEPT !.d = d, !.reads = Append(@, ch),
                            !.stream = Append(@, ch[1]), !.keys = Handed(@, d)]
  /\ UNCHANGED notKey

\* next() gives the empty string: nothing typed yet when the call has read
\* nothing, the end of the stream otherwise
StreamNoData ==
  /\ key.d.pc /= "done"
  /\ LET d == read_step(key.d, <<>>)
     IN  key' = [key EXCEPT !.d = d, !.reads = Append(@, <<>>),
                            !.eof = @ \/ key.reads /= <<>>, !.keys = Handed(@, d)]
  /\ UNCHANGED notKey

NextStream ==
  \/ StreamCall
  \/ \E ch \in StreamChars : StreamRead(ch)
  \/ StreamNoData

SpecStream == InitStream /\ [][NextStream]_vars

\* --- vocabulary of the claim about successive calls
\* the characters returned as themselves, in the order of the calls
RECURSIVE Literals(_)
Literals(keys) ==
  IF keys = <<>> THEN <<>>
  ELSE (IF IsStr(Head(keys)) THEN Head(keys).str ELSE <<>>) \o Literals(Tail(keys))

IsDigitCode(c) == c \in 48..57

\* what is left of s after a run of digits
RECURSIVE AfterDigits(_)
AfterDigits(s) == IF s /= <<>> /\ IsDigitCode(Head(s)) THEN AfterDigits(Tail(s)) ELSE s

\* what is left of s, which follows ESC [, after the escape sequence: a digit
\* run, then ';' and a second digit run, then the terminating character
AfterBracket(s) ==
  LET a == AfterDigits(s)
      b == IF a /= <<>> /\ Head(a) = 59 /\ a /= s THEN AfterDigits(Tail(a)) ELSE a
  IN  IF b = <<>> THEN <<>> ELSE Tail(b)

\* the printable characters of the stream s outside the escape sequences that
\* start with ESC ?, ESC O or ESC [ ; an ESC before anything else stands alone
RECURSIVE PrintableOutsideEscapes(_)
PrintableOutsideEscapes(s) ==
  IF s = <<>> THEN <<>>
  ELSE IF Head(s) /= 27
    THEN (IF Head(s) >= 32 /\ Head(s) /= 127 THEN <<Head(s)>> ELSE <<>>)
           \o PrintableOutsideEscapes(Tail(s))
  ELSE IF Len(s) >= 2 /\ s[2] \in {63, 79}
    THEN PrintableOutsideEscapes(IF Len(s) >= 3 THEN SubSeq(s, 4, Len(s)) ELSE <<>>)
  ELSE IF Len(s) >= 2 /\ s[2] = 91
    THEN PrintableOutsideEscapes(AfterBracket(SubSeq(s, 3, Len(s))))
  ELSE PrintableOutsideEscapes(Tail(s))

\* C22: between calls, the characters returned as themselves are, in stream
\* order, the printable characters delivered so far that lie outside the
\* escape sequences: a call consumes only the characters of the key it
\* returns, and the stream ESC, 'a' gives the ESC key and then 'a'.
C22_ConsumesOnlyItsKey ==
  key.d.pc = "done" =>
    /\ Literals(key.keys) = PrintableOutsideEscapes(key.stream)
    /\ key.stream = <<27, 97>> => key.keys = <<Key("ESC"), PyStr(<<97>>)>>

\* ======================================================================
\* The decoder on the escape sequences of the navigation keys
\* ======================================================================
\* what follows ESC in the sequences of the arrows and of the navigation
\* keys, plain and with Ctrl: '[', the digits 1 2 3 5 6, ';', '~', A B C D H F
NavChars ==
  { <<91>>, <<49>>, <<50>>, <<51>>, <<53>>, <<54>>, <<59>>, <<126>>,
    <<65>>, <<66>>, <<67>>, <<68>>, <<72>>, <<70>> }

\* next() gives ESC first and characters of the navigation sequences after
NavRead(ch) ==
  /\ key.d.pc /= "done"
  /\ Len(key.reads) < MaxReads
  /\ ch \in (IF key.reads = <<>> THEN {ESC} ELSE NavChars)
  /\ key' = [d |-> read_step(key.d, ch), reads |-> Append(key.reads, ch)]
  /\ UNCHANGED notKey

NextNav ==
  \/ KeyCall
  \/ \E ch \in NavChars \cup {ESC} : NavRead(ch)
  \/ KeyNoData

SpecNav == InitKey /\ [][NextNav]_vars

\* _read on a source that gives the strings of reads one after the other:
\* the decoder after the last of them
RECURSIVE read_all(_, _)
read_all(d, reads) ==
  IF reads = <<>> \/ d.pc = "done" THEN d
  ELSE read_all(read_step(d, Head(reads)), Tail(reads))

\* the key that a whole sequence decodes to
Decoded(reads) == read_all(Called.d, reads).result

\* --- vocabulary of the claim about the Ctrl variants
CtrlOf ==
  [INSERT |-> "CRTL_INSERT", DEL |-> "CRTL_DEL", PGUP |-> "CRTL_PGUP",
   PGDOWN |-> "CRTL_PGDOWN", UP |-> "CRTL_UP", DOWN |-> "CRTL_DOWN",
   RIGHT |-> "CRTL_RIGHT", LEFT |-> "CRTL_LEFT", HOME |-> "CRTL_HOME",
   END |-> "CRTL_END"]

TildeKeys == {"INSERT", "DEL", "PGUP", "PGDOWN"}
LetterKeys == {"UP", "DOWN", "RIGHT", "LEFT", "HOME", "END"}

SeqsOf(k) == {SpecialKey[k][2][j] : j \in 1..Len(SpecialKey[k][2])}

\* C23: when ESC [ n ~ decodes to Insert, Delete, PageUp or PageDown,
\* ESC [ n ; 5 ~ decodes to the Ctrl variant of that key; when ESC [ X decodes
\* to an arrow, Home or End, ESC [ 1 ; 5 X decodes to the Ctrl variant of that
\* key; and no sequence is in the lists of two members of SpecialKey.
C23_CtrlMatchesPlain ==
  /\ \A k1 \in 1..Len(SpecialKey), k2 \in 1..Len(SpecialKey) :
       k1 /= k2 => SeqsOf(k1) \cap SeqsOf(k2) = {}
  /\ (Returned /\ Len(key.reads) = 6 /\ SubSeq(key.reads, 1, 2) = <<ESC, <<91>> >>
        /\ SubSeq(key.reads, 4, 5) = << <<59>>, <<53>> >>) =>
       LET n == key.reads[3]
           X == key.reads[6]
           tilde == Decoded(<<ESC, <<91>>, n, <<126>> >>)
           letter == Decoded(<<ESC, <<91>>, X>>)
       IN  /\ (X = <<126>> /\ \E K \in TildeKeys : tilde = Key(K))
                => key.d.result = Key(CtrlOf[tilde.key])
           /\ (n = <<49>> /\ \E K \in LetterKeys : letter = Key(K))
                => key.d.result = Key(CtrlOf[letter.key])

====
